---------------------------- MODULE Spec2Model ----------------------------
(***************************************************************************)
(* A model of osmnx/_osm_xml.py: the SAX content handler that reads OSM    *)
(* XML into an Overpass-like document, and the writer that turns node and  *)
(* edge tables into OSM XML (way-identifier derivation, oneway             *)
(* normalisation, way reconstruction by topological sort, edge tag         *)
(* aggregation).                                                           *)
(*                                                                         *)
(* Conventions.  A Python str whose content matters is a sequence of       *)
(* one-character strings (<<"n","o">> is "no"), so that str(), int() and   *)
(* str.replace are computed, not assumed.  Dictionary keys, element names  *)
(* and column names are plain TLA+ strings.  A table cell is a tagged      *)
(* record: [int |-> 5], [str |-> <<"y","e","s">>], [bool |-> TRUE] or NaN. *)
(***************************************************************************)
EXTENDS Integers, Sequences, FiniteSets, TLC

VARIABLES
    \* ---- way reconstruction (_append_nodes_as_edge_attrs) ----
    all_edges_df,   \* the rows of one way group, in table order: [u, v]
    wpc,            \* "call" | "done" | "raised"
    xml_nd,         \* the refs of the <nd> children appended to the way
    wlog,           \* utils.log records: <<recovered, total>>
    \* ---- reading (_OSMContentHandler under xml.sax.parse) ----
    stack,          \* the reader's open elements, innermost last
    heap,           \* the element dicts created so far
    element,        \* self._element: 0 for None, else an index of heap
    elements,       \* self.object["elements"]: indexes of heap, in append order
    header,         \* the other keys of self.object: version, generator
    ppc,            \* "idle" | "parsing" | "done" (returned) | "raised"
    exc,            \* the exception that ended the read, "" if none
    warnings,       \* the warnings the read has emitted
    events,         \* history: the handler calls made so far
    \* ---- writing (_save_graph_xml) ----
    data,           \* the call's input: [nodes, edges], two tables
    args,           \* the call's other arguments
    gdf_nodes,      \* the node table as normalised
    gdf_edges,      \* the edge table as normalised
    root,           \* the children of the <osm> root element
    spc,            \* "idle" | "start" | "normalised" | "nodes" | "edges" | "written" (to the file) | "raised"
    sexc            \* the exception that ended the write, "" if none

wayVars == <<all_edges_df, wpc, xml_nd, wlog>>

parseVars == <<stack, heap, element, elements, header, ppc, exc, warnings, events>>

writeVars == <<data, args, gdf_nodes, gdf_edges, root, spc, sexc>>

vars == <<wayVars, parseVars, writeVars>>

notParseVars == <<wayVars, writeVars>>

notWayVars == <<parseVars, writeVars>>

notWriteVars == <<wayVars, parseVars>>

----------------------------------------------------------------------------
(* Bounds of the model *)

MaxNode == 4
MaxEdges == 3
\* handler calls below the root element, and the depth of open elements
MaxEvents == 5
MaxDepth == 3
\* rows of an edge table
MaxRows == 3

----------------------------------------------------------------------------
(* Sequences and strings *)

Range(s) == {s[i] : i \in DOMAIN s}

RECURSIVE Dedup(_)
\* the distinct entries of s in order of first occurrence (dict insertion order)
Dedup(s) ==
    IF s = <<>> THEN <<>>
    ELSE LET r == Dedup(SubSeq(s, 1, Len(s) - 1))
             x == s[Len(s)]
         IN  IF x \in Range(r) THEN r ELSE Append(r, x)

Count(s, x) == Cardinality({i \in DOMAIN s : s[i] = x})

Digit(d) ==
    CASE d = 0 -> "0" [] d = 1 -> "1" [] d = 2 -> "2" [] d = 3 -> "3"
      [] d = 4 -> "4" [] d = 5 -> "5" [] d = 6 -> "6" [] d = 7 -> "7"
      [] d = 8 -> "8" [] d = 9 -> "9"

RECURSIVE StrNat(_)
StrNat(n) == IF n < 10 THEN <<Digit(n)>> ELSE Append(StrNat(n \div 10), Digit(n % 10))

\* Python str() of an int
StrInt(n) == IF n < 0 THEN <<"-">> \o StrNat(0 - n) ELSE StrNat(n)

DigitVal(c) ==
    CASE c = "0" -> 0 [] c = "1" -> 1 [] c = "2" -> 2 [] c = "3" -> 3
      [] c = "4" -> 4 [] c = "5" -> 5 [] c = "6" -> 6 [] c = "7" -> 7
      [] c = "8" -> 8 [] c = "9" -> 9

IsDigits(s) == s # <<>> /\ \A i \in DOMAIN s : s[i] \in {"0", "1", "2", "3", "4", "5", "6", "7", "8", "9"}

\* whether Python int(s) succeeds (else it raises ValueError)
IsIntStr(s) == IF s # <<>> /\ s[1] = "-" THEN IsDigits(Tail(s)) ELSE IsDigits(s)

RECURSIVE NatOf(_)
NatOf(s) == IF s = <<>> THEN 0 ELSE 10 * NatOf(SubSeq(s, 1, Len(s) - 1)) + DigitVal(s[Len(s)])

\* Python int(s) of a decimal string
IntOf(s) == IF s[1] = "-" THEN 0 - NatOf(Tail(s)) ELSE NatOf(s)

----------------------------------------------------------------------------
(* The directed multigraph G built from a way group's rows *)

\* all_nodes = list(df["u"]) + list(df["v"])
AllNodes(rows) == [i \in 1..Len(rows) |-> rows[i].u] \o [i \in 1..Len(rows) |-> rows[i].v]

\* G.add_edges_from(df[["u", "v"]].to_numpy()): the edges, in row order
WayEdgesReversed(rows) == [i \in 1..Len(rows) |-> <<rows[i].v, rows[i].u>>]

WayEdges(rows) == [i \in 1..Len(rows) |-> <<rows[i].u, rows[i].v>>]

\* G.add_nodes_from(all_nodes): the nodes of G in insertion order
GraphNodes(rows) == Dedup(AllNodes(rows))

\* G.neighbors(n): the successors of n in order of first insertion
Successors(edges, n) ==
    Dedup([i \in 1..Len(SelectSeq(edges, LAMBDA e : e[1] = n))
              |-> SelectSeq(edges, LAMBDA e : e[1] = n)[i][2]])

\* len(G[n][c]): the number of parallel edges n -> c
Multiplicity(edges, n, c) == Count(edges, <<n, c>>)

\* G.in_degree(n), parallel edges counted
InDegree(edges, n) == Cardinality({i \in DOMAIN edges : edges[i][2] = n})

RECURSIVE Reach(_, _)
\* the nodes reachable from the set S along edges taken in either direction
Reach(edges, S) ==
    LET T == S \cup {e[2] : e \in {x \in Range(edges) : x[1] \in S}}
                \cup {e[1] : e \in {x \in Range(edges) : x[2] \in S}}
    IN  IF T = S THEN S ELSE Reach(edges, T)

RECURSIVE Components(_, _)
\* nx.weakly_connected_components(G): the components in order of discovery
Components(nodes, edges) ==
    IF nodes = <<>> THEN <<>>
    ELSE LET c == Reach(edges, {nodes[1]})
         IN  <<c>> \o Components(SelectSeq(nodes, LAMBDA n : n \notin c), edges)

RECURSIVE FirstLargest(_)
\* max(components, key=len): the first component of maximal size
FirstLargest(cs) ==
    IF Len(cs) = 1 THEN cs[1]
    ELSE LET rest == FirstLargest(Tail(cs))
         IN  IF Cardinality(cs[1]) >= Cardinality(rest) THEN cs[1] ELSE rest

\* utils_graph.get_largest_component(G, strongly=False): G itself when it is
\* weakly connected, else the subgraph induced by the largest component
LargestComponent(nodes, edges) ==
    LET cs == Components(nodes, edges)
        cc == FirstLargest(cs)
    IN  IF Len(cs) = 1 THEN [nodes |-> nodes, edges |-> edges]
        ELSE [nodes |-> SelectSeq(nodes, LAMBDA n : n \in cc),
              edges |-> SelectSeq(edges, LAMBDA e : e[1] \in cc)]

----------------------------------------------------------------------------
(* nx.topological_sort: Kahn's algorithm by generations *)

\* the (node, child) visits of one generation, in the order of the two loops
\* "for node in this_generation: for child in G.neighbors(node)"
RECURSIVE Visits(_, _)
Visits(edges, gen) ==
    IF gen = <<>> THEN <<>>
    ELSE LET cs == Successors(edges, gen[1])
         IN  [i \in 1..Len(cs) |-> <<gen[1], cs[i]>>] \o Visits(edges, Tail(gen))

RECURSIVE Relax(_, _, _, _)
\* indegree_map[child] -= len(G[node][child]); a child reaching 0 joins the
\* next generation
Relax(edges, visits, indeg, zero) ==
    IF visits = <<>> THEN [indeg |-> indeg, zero |-> zero]
    ELSE LET n == visits[1][1]
             c == visits[1][2]
             d == indeg[c] - Multiplicity(edges, n, c)
         IN  Relax(edges, Tail(visits), [indeg EXCEPT ![c] = d],
                   IF d = 0 THEN Append(zero, c) ELSE zero)

RECURSIVE Generations(_, _, _, _)
Generations(edges, indeg, zero, out) ==
    IF zero = <<>>
    THEN [order |-> out, unfeasible |-> \E n \in DOMAIN indeg : indeg[n] > 0]
    ELSE LET r == Relax(edges, Visits(edges, zero), indeg, <<>>)
         IN  Generations(edges, r.indeg, r.zero, out \o zero)

\* the nodes in their order of insertion
InsertionOrder(nodes, edges) ==
    [order |-> nodes, unfeasible |-> \E e \in Range(edges) : e[1] = e[2]]

\* list(nx.topological_sort(H)); unfeasible stands for nx.NetworkXUnfeasible,
\* raised when the graph contains a cycle
TopologicalSort(nodes, edges) ==
    LET indeg == [n \in Range(nodes) |-> InDegree(edges, n)]
        zero == SelectSeq(nodes, LAMBDA n : indeg[n] = 0)
    IN  Generations(edges, indeg, zero, <<>>)

----------------------------------------------------------------------------
(* _get_unique_nodes_ordered_from_way *)

NumNodesWithRepeats(rows) == Len(AllNodes(rows))

\* num_unique_nodes = len(np.unique(all_nodes))
NumUniqueNodes(rows) == Cardinality(Range(AllNodes(rows)))

\* the log call made when the order of only some of the nodes was recovered
RecoveredLog(recovered, total) ==
    IF recovered < total THEN << <<recovered, total>> >> ELSE <<>>

GetUniqueNodesOrderedFromWay(rows) ==
    LET H == LargestComponent(GraphNodes(rows), WayEdges(rows))
        t == TopologicalSort(H.nodes, H.edges)
    IN  IF t.unfeasible
        THEN [raised |-> TRUE, nodes |-> <<>>, log |-> <<>>]
        ELSE [raised |-> FALSE, nodes |-> t.order,
              log |-> RecoveredLog(Len(t.order), NumUniqueNodes(rows))]

----------------------------------------------------------------------------
(* _append_nodes_as_edge_attrs *)

\* the refs emitted for the nodes of the general case: str(node) of each
NodeRefs(nodes) == [i \in 1..Len(nodes) |-> StrInt(nodes[i])]

\* the remaining rows ordered, with no node pinned before them
NoPinnedNode(rows) == GetUniqueNodesOrderedFromWay(Tail(rows))

\* the except branch: pin the first row's u, order the remaining rows
PinnedFirstNode(rows) ==
    LET first_node == rows[1].u
        r == GetUniqueNodesOrderedFromWay(Tail(rows))
    IN  [r EXCEPT !.nodes = IF r.raised THEN <<>> ELSE <<first_node>> \o r.nodes]

\* the whole function: the refs appended, the log written, or the
\* exception that leaves it (raised)
AppendNodesAsEdgeAttrs(rows) ==
    IF Len(rows) = 1
    THEN [raised |-> FALSE, log |-> <<>>,
          nd |-> <<StrInt(rows[1].u), StrInt(rows[1].v)>>]
    ELSE LET r == GetUniqueNodesOrderedFromWay(rows)
             o == IF r.raised THEN PinnedFirstNode(rows) ELSE r
         IN  [raised |-> o.raised, log |-> o.log, nd |-> NodeRefs(o.nodes)]

----------------------------------------------------------------------------
(* Attribute coercion in _OSMContentHandler.startElement *)

EmptyDict == [x \in {} |-> 0]

\* d.update({k: v})
DictUpdate(d, k, v) == [x \in DOMAIN d \cup {k} |-> IF x = k THEN v ELSE d[x]]

Unsigned(s) == IF s # <<>> /\ s[1] = "-" THEN Tail(s) ELSE s

\* whether Python float(s) succeeds, for plain decimal notation
IsFloatStr(s) ==
    LET b == Unsigned(s)
        d == SelectSeq(b, LAMBDA c : c # ".")
    IN  Len(b) - Len(d) <= 1 /\ IsDigits(d)

RECURSIVE Normalise(_, _)
\* a decimal m / 10^e with no trailing zero among its decimals
Normalise(m, e) == IF e > 0 /\ m % 10 = 0 THEN Normalise(m \div 10, e - 1) ELSE <<m, e>>

\* Python float(s) of a decimal string, as <<mantissa, decimals>>
FloatOf(s) ==
    LET b == Unsigned(s)
        dot == {i \in DOMAIN b : b[i] = "."}
        e == IF dot = {} THEN 0 ELSE Len(b) - (CHOOSE i \in dot : TRUE)
        m == NatOf(SelectSeq(b, LAMBDA c : c # "."))
    IN  Normalise(IF s[1] = "-" THEN 0 - m ELSE m, e)

FloatKeys == {"lat", "lon"}

IntKeys == {"id", "uid", "version", "changeset"}

\* the attributes a new element of this name coerces to float (line 43)
FloatKeysOf(name) == IF name \in {"node", "way"} THEN FloatKeys ELSE {}

\* whether every coercion of lines 43-46 / 50-52 succeeds
CoerceOk(name, attrs) ==
    \A k \in DOMAIN attrs :
        /\ k \in FloatKeysOf(name) => IsFloatStr(attrs[k])
        /\ k \in IntKeys => IsIntStr(attrs[k])

\* dict(**attrs) updated with the float and the int coercions
Coerce(name, attrs) ==
    [k \in DOMAIN attrs |->
        IF k \in IntKeys THEN [int |-> IntOf(attrs[k])]
        ELSE IF k \in FloatKeysOf(name) THEN [float |-> FloatOf(attrs[k])]
        ELSE [str |-> attrs[k]]]

\* the dict created on a node, way or relation start; the keys of attrs are
\* kept under "attrs" instead of beside type and tags
NewElement(name, attrs) ==
    IF name \in {"node", "way"}
    THEN [type |-> name, tags |-> EmptyDict, nodes |-> <<>>, attrs |-> Coerce(name, attrs)]
    ELSE [type |-> name, tags |-> EmptyDict, members |-> <<>>, attrs |-> Coerce(name, attrs)]

\* whether the dict has the key "nodes" / "members"
HasNodes(e) == e.type \in {"node", "way"}

HasMembers(e) == e.type = "relation"

\* {k: (int(v) if k == "ref" else v) for k, v in attrs.items()}
MemberRecord(attrs) == [k \in DOMAIN attrs |-> IF k = "ref" THEN IntOf(attrs[k]) ELSE attrs[k]]

----------------------------------------------------------------------------
(* _OSMContentHandler.startElement and endElement, on the handler's state   *)
(* heap, element, elements, header; exc is the exception that leaves them  *)

handlerVars == <<heap, element, elements, header>>

Raise(e) == exc' = e /\ UNCHANGED handlerVars

\* line 39
StartOsm(attrs) ==
    /\ header' = [k \in (DOMAIN header \cup (DOMAIN attrs \cap {"version", "generator"})) |->
                     IF k \in DOMAIN attrs THEN attrs[k] ELSE header[k]]
    /\ UNCHANGED <<heap, element, elements, exc>>

\* lines 41-52: self._element becomes a new dict
StartNewElement(name, attrs) ==
    IF CoerceOk(name, attrs)
    THEN /\ heap' = Append(heap, NewElement(name, attrs))
         /\ element' = Len(heap) + 1
         /\ UNCHANGED <<elements, header, exc>>
    ELSE Raise("ValueError")

\* line 55: self._element["tags"].update({attrs["k"]: attrs["v"]})
StartTag(attrs) ==
    IF element = 0 THEN Raise("TypeError")
    ELSE /\ heap' = [heap EXCEPT ![element].tags = DictUpdate(@, attrs.k, attrs.v)]
         /\ UNCHANGED <<element, elements, header, exc>>

\* line 58: self._element["nodes"].append(int(attrs["ref"]))
StartNd(attrs) ==
    IF element = 0 THEN Raise("TypeError")
    ELSE IF ~HasNodes(heap[element]) THEN Raise("KeyError")
    ELSE IF ~IsIntStr(attrs.ref) THEN Raise("ValueError")
    ELSE /\ heap' = [heap EXCEPT ![element].nodes = Append(@, IntOf(attrs.ref))]
         /\ UNCHANGED <<element, elements, header, exc>>

\* lines 61-63: self._element["members"].append({...})
StartMember(attrs) ==
    IF element = 0 THEN Raise("TypeError")
    ELSE IF ~HasMembers(heap[element]) THEN Raise("KeyError")
    ELSE IF ~IsIntStr(attrs.ref) THEN Raise("ValueError")
    ELSE /\ heap' = [heap EXCEPT ![element].members = Append(@, MemberRecord(attrs))]
         /\ UNCHANGED <<element, elements, header, exc>>

StartElement(name, attrs) ==
    IF name = "osm" THEN StartOsm(attrs)
    ELSE IF name \in {"node", "way", "relation"} THEN StartNewElement(name, attrs)
    ELSE IF name = "tag" THEN StartTag(attrs)
    ELSE IF name = "nd" THEN StartNd(attrs)
    ELSE IF name = "member" THEN StartMember(attrs)
    ELSE UNCHANGED <<handlerVars, exc>>

PrependedOnEnd(name) ==
    IF name \in {"node", "way", "relation"} THEN <<element>> \o elements ELSE elements

\* lines 65-67: the dict self._element refers to is appended, not a copy
AppendedOnEnd(name) ==
    IF name \in {"node", "way", "relation"} THEN Append(elements, element) ELSE elements

EndElement(name) ==
    /\ elements' = AppendedOnEnd(name)
    /\ UNCHANGED <<heap, element, header, exc>>

\* handler.object["elements"] as returned: the dicts the list refers to
Document == [i \in 1..Len(elements) |-> heap[elements[i]]]

----------------------------------------------------------------------------
(* Table cells and pandas tables.  A table is [levels, cols, rows]: the    *)
(* names of its index levels (none for a plain integer index), the names   *)
(* of its columns, and its rows, each a function from every level and      *)
(* column name to a cell.                                                  *)

NaN == [nan |-> TRUE]

IntCell(n) == [int |-> n]

FloatCell(m, e) == [float |-> <<m, e>>]

BoolCell(b) == [bool |-> b]

StrCell(s) == [str |-> s]

RECURSIVE Pow10(_)
Pow10(e) == IF e = 0 THEN 1 ELSE 10 * Pow10(e - 1)

RECURSIVE Padded(_, _)
\* the digits of n, zero-filled on the left to width w
Padded(n, w) == IF Len(StrNat(n)) >= w THEN StrNat(n) ELSE <<"0">> \o Padded(n, w - 1)

Abs(n) == IF n < 0 THEN 0 - n ELSE n

\* Python str() of a float given as <<mantissa, decimals>>: 10.0, 0.5
StrFloat(f) ==
    LET m == Abs(f[1])
        e == f[2]
        whole == StrNat(m \div Pow10(e))
        frac == IF e = 0 THEN <<"0">> ELSE Padded(m % Pow10(e), e)
    IN  (IF f[1] < 0 THEN <<"-">> ELSE <<>>) \o whole \o <<".">> \o frac

StrTrue == <<"T", "r", "u", "e">>

StrFalse == <<"F", "a", "l", "s", "e">>

\* Python str() of a cell
StrOf(c) ==
    IF "int" \in DOMAIN c THEN StrInt(c.int)
    ELSE IF "float" \in DOMAIN c THEN StrFloat(c.float)
    ELSE IF "bool" \in DOMAIN c THEN (IF c.bool THEN StrTrue ELSE StrFalse)
    ELSE IF "str" \in DOMAIN c THEN c.str
    ELSE <<"n", "a", "n">>

\* row.dropna().astype(str), as a dict
RowStr(row) == [k \in {x \in DOMAIN row : row[x] # NaN} |-> StrOf(row[k])]

\* series.round(precision): half to even on the decimal digits
RoundCell(c, precision) ==
    IF "float" \notin DOMAIN c \/ c.float[2] <= precision THEN c
    ELSE LET m == Abs(c.float[1])
             p == Pow10(c.float[2] - precision)
             q == m \div p
             r == m % p
             up == 2 * r > p \/ (2 * r = p /\ q % 2 = 1)
             n == IF up THEN q + 1 ELSE q
             f == Normalise(IF c.float[1] < 0 THEN 0 - n ELSE n, precision)
         IN  FloatCell(f[1], f[2])

Names(t) == t.levels \cup t.cols

DropCol(t, c) ==
    [t EXCEPT !.cols = @ \ {c},
              !.rows = [i \in 1..Len(t.rows) |-> [k \in Names(t) \ {c} |-> t.rows[i][k]]]]

\* t.rename(columns={old: new})
RenameCol(t, old, new) ==
    IF old \notin t.cols THEN t
    ELSE [t EXCEPT !.cols = (@ \ {old}) \cup {new},
                   !.rows = [i \in 1..Len(t.rows) |->
                                [k \in (Names(t) \ {old}) \cup {new} |->
                                    IF k = new THEN t.rows[i][old] ELSE t.rows[i][k]]]]

\* t[c] = cell on every row
SetCol(t, c, cell) ==
    [t EXCEPT !.cols = @ \cup {c},
              !.rows = [i \in 1..Len(t.rows) |->
                           [k \in Names(t) \cup {c} |-> IF k = c THEN cell ELSE t.rows[i][k]]]]

\* t[c] = t[c].round(precision)
RoundCol(t, c, precision) ==
    [t EXCEPT !.rows = [i \in 1..Len(t.rows) |->
                           [t.rows[i] EXCEPT ![c] = RoundCell(@, precision)]]]

\* t.reset_index(): index levels become columns; a plain integer index
\* becomes the column "index" (or "level_0") holding the row positions
ResetIndex(t) ==
    IF t.levels # {}
    THEN [t EXCEPT !.levels = {}, !.cols = @ \cup t.levels]
    ELSE LET c == IF "index" \in t.cols THEN "level_0" ELSE "index"
         IN  [t EXCEPT !.cols = @ \cup {c},
                       !.rows = [i \in 1..Len(t.rows) |->
                                    [k \in Names(t) \cup {c} |->
                                        IF k = c THEN IntCell(i - 1) ELSE t.rows[i][k]]]]

----------------------------------------------------------------------------
(* _save_graph_xml, lines 194-221: the tables as the emitters expect them *)

\* lines 195-198
NodesRenamed(t, precision) ==
    LET a == RenameCol(RenameCol(t, "x", "lon"), "y", "lat")
        b == RoundCol(RoundCol(a, "lon", precision), "lat", precision)
    IN  RenameCol(ResetIndex(b), "osmid", "id")

\* the column the way identifier is read from (line 201)
GroupingColumn == "uniqueid"

\* the way identifier read from the column "id" of the input when it has one
WayIdsKept(t) ==
    IF "id" \in t.cols THEN t
    ELSE IF GroupingColumn \in t.cols THEN RenameCol(t, GroupingColumn, "id")
    ELSE RenameCol(ResetIndex(ResetIndex(t)), "index", "id")

\* lines 199-204: the way identifier column "id"
WayIdsDerived(t) ==
    LET a == IF "id" \in t.cols THEN DropCol(t, "id") ELSE t
    IN  IF GroupingColumn \in a.cols
        THEN RenameCol(a, GroupingColumn, "id")
        ELSE RenameCol(ResetIndex(ResetIndex(a)), "index", "id")

\* utils.ts(): the time of the call, formatted
Timestamp == <<"n", "o", "w">>

\* lines 207-212
Stamped(t) ==
    SetCol(SetCol(SetCol(SetCol(SetCol(t,
        "uid", StrCell(<<"1">>)),
        "user", StrCell(<<"O", "S", "M", "n", "x">>)),
        "version", StrCell(<<"1">>)),
        "changeset", StrCell(<<"1">>)),
        "timestamp", StrCell(Timestamp))

IsPrefix(p, s) == Len(p) <= Len(s) /\ SubSeq(s, 1, Len(p)) = p

RECURSIVE StrReplace(_, _, _)
\* Python s.replace(old, new): every occurrence, leftmost first
StrReplace(s, old, new) ==
    IF s = <<>> THEN <<>>
    ELSE IF IsPrefix(old, s)
    THEN new \o StrReplace(SubSeq(s, Len(old) + 1, Len(s)), old, new)
    ELSE <<s[1]>> \o StrReplace(Tail(s), old, new)

\* Series.replace(old, new): a value equal to old becomes new
ValueReplace(s, old, new) == IF s = old THEN new ELSE s

\* line 217
OnewayFilled(c, oneway) == IF c = NaN THEN BoolCell(oneway) ELSE c

\* lines 218-221, on one value
OnewayReplaced(s) ==
    ValueReplace(StrReplace(s, StrFalse, <<"n", "o">>), StrTrue, <<"y", "e", "s">>)

\* lines 215-221
OnewayNormalised(t, oneway) ==
    IF "oneway" \notin t.cols THEN t
    ELSE [t EXCEPT !.rows = [i \in 1..Len(t.rows) |->
            [t.rows[i] EXCEPT !["oneway"] = StrCell(OnewayReplaced(StrOf(OnewayFilled(@, oneway))))]]]

----------------------------------------------------------------------------
(* The XML tree: an element is [tag, attrib, children] *)

Elem(tag, attrib, children) == [tag |-> tag, attrib |-> attrib, children |-> children]

\* row_str[attrs] raises KeyError when a label is missing
HasAll(rs, attrs) == \A i \in DOMAIN attrs : attrs[i] \in DOMAIN rs

\* row_str[attrs].to_dict()
Attrib(rs, attrs) == [a \in Range(attrs) |-> rs[a]]

\* for tag in tags: if tag in row_str: SubElement(..., "tag", {k: tag, v: row_str[tag]})
TagChildren(rs, tags) ==
    LET present == SelectSeq(tags, LAMBDA t : t \in DOMAIN rs)
    IN  [i \in 1..Len(present) |-> Elem("tag", [k |-> present[i], v |-> rs[present[i]]], <<>>)]

\* the references in reverse order
NdChildrenReversed(refs) ==
    [i \in 1..Len(refs) |-> Elem("nd", [ref |-> refs[Len(refs) + 1 - i]], <<>>)]

NdChildren(refs) == [i \in 1..Len(refs) |-> Elem("nd", [ref |-> refs[i]], <<>>)]

RECURSIVE Collected(_)
\* the elements emitted one after the other, until one emission raises
Collected(es) ==
    IF es = <<>> THEN [exc |-> "", elems |-> <<>>]
    ELSE IF es[1].exc # "" THEN [exc |-> es[1].exc, elems |-> <<>>]
    ELSE LET r == Collected(Tail(es))
         IN  [exc |-> r.exc, elems |-> IF r.exc # "" THEN <<>> ELSE <<es[1].elem>> \o r.elems]

\* _append_nodes_xml_tree, one row (lines 258-263)
NodeElement(row, node_attrs, node_tags) ==
    LET rs == RowStr(row)
    IN  IF ~HasAll(rs, node_attrs) THEN [exc |-> "KeyError", elem |-> <<>>]
        ELSE [exc |-> "", elem |-> Elem("node", Attrib(rs, node_attrs), TagChildren(rs, node_tags))]

\* _append_nodes_xml_tree
AppendNodesXmlTree(t, node_attrs, node_tags) ==
    Collected([i \in 1..Len(t.rows) |-> NodeElement(t.rows[i], node_attrs, node_tags)])

\* a way that refers to v, then u
EdgeWayElementBackwards(row, edge_attrs, edge_tags) ==
    LET rs == RowStr(row)
    IN  IF ~HasAll(rs, edge_attrs) \/ ~HasAll(rs, <<"u", "v">>)
        THEN [exc |-> "KeyError", elem |-> <<>>]
        ELSE [exc |-> "",
              elem |-> Elem("way", Attrib(rs, edge_attrs),
                            NdChildren(<<rs["v"], rs["u"]>>) \o TagChildren(rs, edge_tags))]

\* _create_way_for_each_edge, one row (lines 295-301)
EdgeWayElement(row, edge_attrs, edge_tags) ==
    LET rs == RowStr(row)
    IN  IF ~HasAll(rs, edge_attrs) \/ ~HasAll(rs, <<"u", "v">>)
        THEN [exc |-> "KeyError", elem |-> <<>>]
        ELSE [exc |-> "",
              elem |-> Elem("way", Attrib(rs, edge_attrs),
                            NdChildren(<<rs["u"], rs["v"]>>) \o TagChildren(rs, edge_tags))]

\* _create_way_for_each_edge
CreateWayForEachEdge(t, edge_attrs, edge_tags) ==
    Collected([i \in 1..Len(t.rows) |-> EdgeWayElement(t.rows[i], edge_attrs, edge_tags)])

----------------------------------------------------------------------------
(* Series.aggregate and _append_merged_edge_attrs *)

IsFloatColumn(cells) == \E i \in DOMAIN cells : "int" \notin DOMAIN cells[i]

\* the value of a numeric cell as <<mantissa, decimals>>
Decimal(c) == IF "int" \in DOMAIN c THEN <<c.int, 0>> ELSE c.float

MaxOf(S) == CHOOSE x \in S : \A y \in S : y <= x

\* the mantissa of d at e decimals
Scaled(d, e) == d[1] * Pow10(e - d[2])

RECURSIVE SumSeq(_)
SumSeq(ns) == IF ns = <<>> THEN 0 ELSE ns[1] + SumSeq(Tail(ns))

\* Series.aggregate(agg) for agg in sum, min, max: NaN is skipped; the sum
\* of no value is 0 and the min or max of no value is NaN; an int64 column
\* gives an int, a float64 column (one that holds NaN somewhere) a float
Aggregate(cells, agg) ==
    LET vals == SelectSeq(cells, LAMBDA c : c # NaN)
        e == IF vals = <<>> THEN 0 ELSE MaxOf({Decimal(vals[i])[2] : i \in DOMAIN vals})
        ms == [i \in 1..Len(vals) |-> Scaled(Decimal(vals[i]), e)]
        m == IF agg = "sum" THEN SumSeq(ms)
             ELSE IF agg = "max" THEN MaxOf(Range(ms))
             ELSE 0 - MaxOf({0 - x : x \in Range(ms)})
    IN  IF vals = <<>> /\ agg # "sum" THEN NaN
        ELSE IF IsFloatColumn(cells) THEN FloatCell(Normalise(m, e)[1], Normalise(m, e)[2])
        ELSE IntCell(m)

Column(rows, c) == [i \in 1..Len(rows) |-> rows[i][c]]

NoAggs == [none |-> TRUE]

Aggs(list) == [list |-> list]

\* the tags with a declared aggregation: (t for t, agg in edge_tag_aggs)
AggregatedTags(aggs) == {aggs.list[i][1] : i \in DOMAIN aggs.list}

\* every requested tag copied from the first edge, aggregated or not
CopiedTagsAll(edge_tags, aggs) == edge_tags

\* the tags copied from the first edge (lines 339-345)
CopiedTags(edge_tags, aggs) ==
    IF "none" \in DOMAIN aggs THEN edge_tags
    ELSE SelectSeq(edge_tags, LAMBDA t : t \notin AggregatedTags(aggs))

\* whether the aggregation of tag is emitted for this way (line 348)
AggregationApplies(tag, cols, rows) == tag \in cols

\* the aggregated tags (lines 347-356)
AggregatedChildren(rows, cols, aggs) ==
    IF "none" \in DOMAIN aggs THEN <<>>
    ELSE LET used == SelectSeq(aggs.list, LAMBDA a : AggregationApplies(a[1], cols, rows))
         IN  [i \in 1..Len(used) |->
                Elem("tag", [k |-> used[i][1],
                             v |-> StrOf(Aggregate(Column(rows, used[i][1]), used[i][2]))], <<>>)]

\* _append_merged_edge_attrs: the tag children appended to the way
AppendMergedEdgeAttrs(sample_edge, rows, cols, edge_tags, aggs) ==
    TagChildren(sample_edge, CopiedTags(edge_tags, aggs)) \o AggregatedChildren(rows, cols, aggs)

----------------------------------------------------------------------------
(* _append_edges_xml_tree *)

RECURSIVE Sorted(_)
\* the integers of S in increasing order
Sorted(S) ==
    IF S = {} THEN <<>>
    ELSE LET x == CHOOSE a \in S : \A b \in S : a <= b
         IN  <<x>> \o Sorted(S \ {x})

\* gdf_edges.groupby("id"): the groups in increasing order of the key, the
\* rows of a group in table order; rows whose key is NaN belong to no group
GroupBy(t, c) ==
    LET keys == Sorted({t.rows[i][c].int : i \in {x \in DOMAIN t.rows : t.rows[x][c] # NaN}})
    IN  [g \in 1..Len(keys) |-> SelectSeq(t.rows, LAMBDA row : row[c] = IntCell(keys[g]))]

\* the u, v columns of a group, as the rows of _append_nodes_as_edge_attrs
WayRows(rows) == [i \in 1..Len(rows) |-> [u |-> rows[i]["u"].int, v |-> rows[i]["v"].int]]

\* one way of the merged output (lines 438-449)
MergedWayElement(rows, cols, edge_attrs, edge_tags, aggs) ==
    LET first == RowStr(rows[1])
        nodes == AppendNodesAsEdgeAttrs(WayRows(rows))
    IN  IF ~HasAll(first, edge_attrs) THEN [exc |-> "KeyError", elem |-> <<>>, log |-> <<>>]
        ELSE IF nodes.raised THEN [exc |-> "NetworkXUnfeasible", elem |-> <<>>, log |-> <<>>]
        ELSE [exc |-> "", log |-> nodes.log,
              elem |-> Elem("way", Attrib(first, edge_attrs),
                            NdChildren(nodes.nd)
                                \o AppendMergedEdgeAttrs(first, rows, cols, edge_tags, aggs))]

\* _append_edges_xml_tree: the way elements appended to the root
AppendEdgesXmlTree(gdf, edge_attrs, edge_tags, aggs, merge_edges) ==
    LET t == ResetIndex(gdf)
    IN  IF merge_edges
        THEN Collected([g \in 1..Len(GroupBy(t, "id")) |->
                          MergedWayElement(GroupBy(t, "id")[g], t.cols, edge_attrs, edge_tags, aggs)])
        ELSE CreateWayForEachEdge(t, edge_attrs, edge_tags)

----------------------------------------------------------------------------
(* The way reconstructor applied to one way group *)

NodeIds == 1..MaxNode

Row(a, b) == [u |-> a, v |-> b]

RowSet == {Row(a, b) : a, b \in NodeIds}

\* the example of the docstring of _get_unique_nodes_ordered_from_way
DocstringWay == <<Row(1, 2), Row(2, 3), Row(10, 11), Row(11, 12), Row(12, 13)>>

WayGroups == UNION {[1..n -> RowSet] : n \in 1..MaxEdges} \cup {DocstringWay}

WayIdle ==
    /\ all_edges_df = <<>>
    /\ wpc = "idle"
    /\ xml_nd = <<>>
    /\ wlog = <<>>

\* _OSMContentHandler.__init__; no read under way
ParseIdle ==
    /\ stack = <<>>
    /\ heap = <<>>
    /\ element = 0
    /\ elements = <<>>
    /\ header = <<>>
    /\ ppc = "idle"
    /\ exc = ""
    /\ warnings = <<>>
    /\ events = <<>>

\* no write under way
WriteIdle ==
    /\ data = <<>>
    /\ args = <<>>
    /\ gdf_nodes = <<>>
    /\ gdf_edges = <<>>
    /\ root = <<>>
    /\ spc = "idle"
    /\ sexc = ""

InitWay ==
    /\ all_edges_df \in WayGroups
    /\ wpc = "call"
    /\ xml_nd = <<>>
    /\ wlog = <<>>
    /\ ParseIdle
    /\ WriteIdle

AppendNodesAsEdgeAttrsCall ==
    /\ wpc = "call"
    /\ LET r == AppendNodesAsEdgeAttrs(all_edges_df)
       IN  /\ wpc' = IF r.raised THEN "raised" ELSE "done"
           /\ xml_nd' = r.nd
           /\ wlog' = r.log
    /\ UNCHANGED <<all_edges_df, notWayVars>>

NextWay == AppendNodesAsEdgeAttrsCall

SpecWay == InitWay /\ [][NextWay]_vars

----------------------------------------------------------------------------
(* Reading a file: xml.sax.parse drives the handler with the start and end *)
(* events of a well-formed XML document whose root is <osm>.  <tag>, <nd>, *)
(* <member> and <bounds> are empty elements: their start is followed at    *)
(* once by their end, on which endElement does nothing.                    *)

V06 == <<"0", ".", "6">>

GenOSMnx == <<"O", "S", "M", "n", "x", " ", "1", ".", "9">>

GenJOSM == <<"J", "O", "S", "M">>

RootAttrs ==
    {[version |-> V06, generator |-> GenJOSM, upload |-> <<"n", "o">>],
     [version |-> V06, generator |-> GenOSMnx],
     [version |-> V06]}

\* sub in s
Contains(s, sub) == \E i \in 1..(Len(s) - Len(sub) + 1) : SubSeq(s, i, i + Len(sub) - 1) = sub

Signature == <<"O", "S", "M", "n", "x">>

\* whether the root carries a generator of any kind
HasGenerator(attrs) == "generator" \in DOMAIN attrs

\* line 97: "generator" in root_attrs and "OSMnx" in root_attrs["generator"]
HasSignature(attrs) == "generator" \in DOMAIN attrs /\ Contains(attrs.generator, Signature)

\* lines 98-105: the warning that the file appears to be generated by OSMnx
GeneratedByOSMnx == "generated by OSMnx: not supported"

ElementNames == {"node", "way", "relation"}

LeafNames == {"tag", "nd", "member", "bounds"}

ElementAttrs(name) ==
    IF name = "node" THEN {[id |-> <<"1">>, lat |-> <<"0", ".", "5">>, lon |-> <<"-", "1">>]}
    ELSE IF name = "way" THEN {[id |-> <<"2">>, user |-> <<"a">>]}
    ELSE {[id |-> <<"3">>, version |-> <<"1">>]}

LeafAttrs(name) ==
    IF name = "tag"
    THEN {[k |-> "highway", v |-> "primary"], [k |-> "highway", v |-> "service"],
          [k |-> "name", v |-> "primary"]}
    ELSE IF name = "nd" THEN {[ref |-> <<"5">>], [ref |-> <<"1", "6">>], [ref |-> <<"x">>]}
    ELSE IF name = "member"
    THEN {[type |-> "way", ref |-> <<"5">>, role |-> "outer"],
          [type |-> "node", ref |-> <<"1", "6">>, role |-> ""]}
    ELSE {EmptyDict}

Top(st) == st[Len(st)]

Event(ev, name, attrs) == [ev |-> ev, name |-> name, attrs |-> attrs, parent |-> Top(stack)]

\* how the read continues after a handler call: an exception leaves
\* xml.sax.parse and _overpass_json_from_file
AfterCall == ppc' = IF exc' = "" THEN "parsing" ELSE "raised"

\* lines 95-111: the root's attributes are read and the warning is emitted,
\* then the handler is created and the root element starts
StartRoot(attrs) ==
    /\ ppc = "idle"
    /\ warnings' = IF HasSignature(attrs) THEN <<GeneratedByOSMnx>> ELSE <<>>
    /\ StartElement("osm", attrs)
    /\ stack' = <<"osm">>
    /\ ppc' = "parsing"
    /\ UNCHANGED events

\* xml.sax.parse calls startElement on the start of a node, way or relation
OnStart(name, attrs) ==
    /\ ppc = "parsing"
    /\ StartElement(name, attrs)
    /\ stack' = Append(stack, name)
    /\ events' = Append(events, Event("start", name, attrs))
    /\ AfterCall
    /\ UNCHANGED warnings

\* xml.sax.parse calls startElement, then endElement, on an empty element
OnLeaf(name, attrs) ==
    /\ ppc = "parsing"
    /\ StartElement(name, attrs)
    /\ events' = Append(events, Event("leaf", name, attrs))
    /\ AfterCall
    /\ UNCHANGED <<stack, warnings>>

\* xml.sax.parse calls endElement on the end of the innermost open element
OnEnd ==
    /\ ppc = "parsing"
    /\ Top(stack) \in ElementNames
    /\ EndElement(Top(stack))
    /\ stack' = SubSeq(stack, 1, Len(stack) - 1)
    /\ events' = Append(events, Event("end", Top(stack), EmptyDict))
    /\ AfterCall
    /\ UNCHANGED warnings

\* line 112: the root ends, xml.sax.parse returns and handler.object is returned
EndRoot ==
    /\ ppc = "parsing"
    /\ stack = <<"osm">>
    /\ EndElement("osm")
    /\ stack' = <<>>
    /\ ppc' = "done"
    /\ UNCHANGED <<events, warnings>>

SaxStartRoot ==
    /\ \E attrs \in RootAttrs : StartRoot(attrs)
    /\ UNCHANGED notParseVars

SaxStartElement ==
    /\ Len(events) < MaxEvents
    /\ Len(stack) < MaxDepth
    /\ \E name \in ElementNames : \E attrs \in ElementAttrs(name) : OnStart(name, attrs)
    /\ UNCHANGED notParseVars

SaxEmptyElement ==
    /\ Len(events) < MaxEvents
    /\ \E name \in LeafNames : \E attrs \in LeafAttrs(name) : OnLeaf(name, attrs)
    /\ UNCHANGED notParseVars

SaxEndElement ==
    /\ Len(events) < MaxEvents
    /\ OnEnd
    /\ UNCHANGED notParseVars

SaxEndRoot ==
    /\ EndRoot
    /\ UNCHANGED notParseVars

InitParse == ParseIdle /\ WayIdle /\ WriteIdle

NextParse ==
    \/ SaxStartRoot
    \/ SaxStartElement
    \/ SaxEmptyElement
    \/ SaxEndElement
    \/ SaxEndRoot

SpecParse == InitParse /\ [][NextParse]_vars

----------------------------------------------------------------------------
(* Writing: _save_graph_xml on a (gdf_nodes, gdf_edges) pair *)

\* the node table: indexed by osmid, with x, y and a highway tag
NodeTable ==
    [levels |-> {"osmid"}, cols |-> {"x", "y", "highway"},
     rows |-> [i \in 1..MaxNode |->
                 [osmid |-> IntCell(i),
                  x |-> FloatCell(10 * i + 5, 1),
                  y |-> IF i = 1 THEN FloatCell(1234565, 7) ELSE FloatCell(0, 0),
                  highway |-> IF i = 1 THEN StrCell(<<"s", "t", "o", "p">>) ELSE NaN]]]

\* an edge table indexed by (u, v, key): uvs gives the endpoints of each row
\* and columns the cells of each column
EdgeTable(uvs, columns) ==
    [levels |-> {"u", "v", "key"}, cols |-> DOMAIN columns,
     rows |-> [i \in 1..Len(uvs) |->
                 [k \in {"u", "v", "key"} \cup DOMAIN columns |->
                     IF k = "u" THEN IntCell(uvs[i][1])
                     ELSE IF k = "v" THEN IntCell(uvs[i][2])
                     ELSE IF k = "key" THEN IntCell(0)
                     ELSE columns[k][i]]]]

\* the rows of a way split at its nodes: 1 -> 2 -> 3 -> ...
ChainUV(n) == [i \in 1..n |-> <<i, i + 1>>]

\* rows that run back and forth between two nodes
LoopUV(n) == [i \in 1..n |-> IF i % 2 = 1 THEN <<1, 2>> ELSE <<2, 1>>]

\* a column of integers
IntColumn(vals) == [i \in 1..Len(vals) |-> IntCell(vals[i])]

\* a numeric column: int64 when no value is missing, else float64
Numeric(vals) ==
    [i \in 1..Len(vals) |->
        IF vals[i] = NaN THEN NaN
        ELSE IF \E j \in DOMAIN vals : vals[j] = NaN THEN FloatCell(vals[i].int, 0)
        ELSE vals[i]]

\* the columns named in names, of those of columns
Only(columns, names) == [c \in names |-> columns[c]]

Arguments(edge_tags, aggs, merge_edges, oneway) ==
    [node_attrs |-> <<"id", "lat", "lon", "version">>,
     node_tags |-> <<"highway">>,
     edge_attrs |-> <<"id", "version">>,
     edge_tags |-> edge_tags,
     edge_tag_aggs |-> aggs,
     merge_edges |-> merge_edges,
     oneway |-> oneway,
     api_version |-> V06,
     precision |-> 6]

Str_a == <<"a">>

\* the call's input and arguments, from an edge table
Called(edges, arguments) ==
    /\ data = [nodes |-> NodeTable, edges |-> edges]
    /\ args = arguments

\* tables with and without the columns id and uniqueid
IdInputs ==
    \E n \in 1..MaxRows, loop \in BOOLEAN, merge \in BOOLEAN :
    \E ids \in [1..n -> {7, 8}], uids \in [1..n -> {1, 2}], names \in SUBSET {"id", "uniqueid"} :
        Called(EdgeTable(IF loop THEN LoopUV(n) ELSE ChainUV(n),
                         Only([id |-> IntColumn(ids), uniqueid |-> IntColumn(uids)], names)),
               Arguments(<<>>, NoAggs, merge, FALSE))

LengthValues == {NaN, IntCell(10), IntCell(15)}

AggChoices ==
    {NoAggs, Aggs(<< <<"length", "sum">> >>), Aggs(<< <<"length", "max">> >>)}

Str_b == <<"b">>

\* the tags requested of the ways
EdgeTags == <<"name", "length">>

\* tables whose rows carry a name, grouped by uniqueid
NameInputs ==
    \E n \in 1..MaxRows :
    \E uids \in [1..n -> {1, 2}], names \in [1..n -> {NaN, StrCell(Str_a), StrCell(Str_b)}] :
        Called(EdgeTable(ChainUV(n), [uniqueid |-> IntColumn(uids), name |-> names]),
               Arguments(EdgeTags, NoAggs, TRUE, FALSE))

\* tables whose rows carry a name and, in some, a length, grouped by uniqueid
TagInputs ==
    \E n \in 1..MaxRows, aggs \in AggChoices, with \in BOOLEAN :
    \E uids \in [1..n -> {1, 2}], lengths \in [1..n -> LengthValues] :
        Called(EdgeTable(ChainUV(n),
                         Only([uniqueid |-> IntColumn(uids), name |-> [i \in 1..n |-> StrCell(Str_a)],
                               length |-> Numeric(lengths)],
                              {"uniqueid", "name"} \cup (IF with THEN {"length"} ELSE {}))),
               Arguments(EdgeTags, aggs, TRUE, FALSE))

\* the example of the docstring of _save_graph_xml: lengths 10, 15, 25 summed
ExampleInput ==
    Called(EdgeTable(ChainUV(3),
                     [uniqueid |-> IntColumn(<<1, 1, 1>>), name |-> [i \in 1..3 |-> StrCell(Str_a)],
                      length |-> IntColumn(<<10, 15, 25>>)]),
           Arguments(EdgeTags, Aggs(<< <<"length", "sum">> >>), TRUE, FALSE))

OnewayValues ==
    {NaN, BoolCell(TRUE), BoolCell(FALSE), StrCell(<<"y", "e", "s">>), StrCell(<<"-", "1">>),
     StrCell(StrTrue), StrCell(<<"x">> \o StrFalse), StrCell(StrTrue \o <<"x">>)}

\* tables whose rows carry a oneway value
OnewayInputs ==
    \E n \in 1..MaxRows, default \in BOOLEAN :
    \E oneways \in [1..n -> OnewayValues] :
        Called(EdgeTable(ChainUV(n), [oneway |-> oneways]),
               Arguments(<<"oneway">>, NoAggs, FALSE, default))

\* a node table of m nodes on the line lat = 0: node i at lon = i - 1
NodeTableOf(m, columns) ==
    [levels |-> {"osmid"}, cols |-> {"x", "y"} \cup DOMAIN columns,
     rows |-> [i \in 1..m |->
                 [k \in {"osmid", "x", "y"} \cup DOMAIN columns |->
                     IF k = "osmid" THEN IntCell(i)
                     ELSE IF k = "x" THEN FloatCell(i - 1, 0)
                     ELSE IF k = "y" THEN FloatCell(0, 0)
                     ELSE columns[k][i]]]]

NodeAttrChoices == {<<"id", "lat", "lon">>, <<"id", "ele", "lat", "lon">>}

NodeTagChoices == {<<>>, <<"ele">>, <<"highway", "ele">>}

\* the single edge (1, 2) over node tables that have, or have not, an ele
\* column, under node_attrs and node_tags that select it or not
NodeInputs ==
    \E m \in 1..MaxRows, attrs \in NodeAttrChoices, tags \in NodeTagChoices,
       merge \in BOOLEAN, with \in BOOLEAN :
    \E eles \in [1..m -> {NaN, IntCell(5)}] :
        /\ data = [nodes |-> NodeTableOf(m, Only([ele |-> Numeric(eles)],
                                                 IF with THEN {"ele"} ELSE {})),
                   edges |-> EdgeTable(ChainUV(1), <<>>)]
        /\ args = [Arguments(<<>>, NoAggs, merge, FALSE)
                       EXCEPT !.node_attrs = attrs, !.node_tags = tags]

\* the graph of nodes 1 (lat 0, lon 0) and 2 (lat 0, lon 1) and the edge (1, 2)
MinimalGraph == [nodes |-> NodeTableOf(2, <<>>), edges |-> EdgeTable(ChainUV(1), <<>>)]

InitWrite ==
    /\ IdInputs \/ NameInputs \/ TagInputs \/ ExampleInput \/ OnewayInputs \/ NodeInputs
    /\ gdf_nodes = <<>>
    /\ gdf_edges = <<>>
    /\ root = <<>>
    /\ spc = "start"
    /\ sexc = ""
    /\ WayIdle
    /\ ParseIdle

\* lines 194-221
NormaliseTables ==
    /\ spc = "start"
    /\ gdf_nodes' = Stamped(NodesRenamed(data.nodes, args.precision))
    /\ gdf_edges' = OnewayNormalised(Stamped(WayIdsDerived(data.edges)), args.oneway)
    /\ spc' = "normalised"
    /\ UNCHANGED <<data, args, root, sexc, notWriteVars>>

\* how the write continues after an emitter
Continue(r, next) ==
    /\ sexc' = r.exc
    /\ spc' = IF r.exc = "" THEN next ELSE "raised"
    /\ root' = IF r.exc = "" THEN root \o r.elems ELSE root

\* line 225
AppendNodes ==
    /\ spc = "normalised"
    /\ Continue(AppendNodesXmlTree(gdf_nodes, args.node_attrs, args.node_tags), "nodes")
    /\ UNCHANGED <<data, args, gdf_nodes, gdf_edges, notWriteVars>>

\* lines 226-228
AppendEdges ==
    /\ spc = "nodes"
    /\ Continue(AppendEdgesXmlTree(gdf_edges, args.edge_attrs, args.edge_tags,
                                   args.edge_tag_aggs, args.merge_edges), "edges")
    /\ UNCHANGED <<data, args, gdf_nodes, gdf_edges, notWriteVars>>

\* line 231: the tree is written to the file
WriteFile ==
    /\ spc = "edges"
    /\ spc' = "written"
    /\ UNCHANGED <<data, args, gdf_nodes, gdf_edges, root, sexc, notWriteVars>>

\* lines 224-231: the document in the file, once written
WrittenFile == Elem("osm", [version |-> args.api_version, generator |-> GenOSMnx], root)

NextWrite ==
    \/ NormaliseTables
    \/ AppendNodes
    \/ AppendEdges
    \/ WriteFile

SpecWrite == InitWrite /\ [][NextWrite]_vars

----------------------------------------------------------------------------
(* A round trip: the file _save_graph_xml wrote is read back by            *)
(* _overpass_json_from_file.  xml.sax.parse calls the handler on the       *)
(* elements of the written tree in document order.                         *)

\* the handler calls on one element of the tree and on its children
ElementEvents(e) ==
    <<[ev |-> "start", name |-> e.tag, attrs |-> e.attrib]>>
        \o [i \in 1..Len(e.children) |->
               [ev |-> "leaf", name |-> e.children[i].tag, attrs |-> e.children[i].attrib]]
        \o <<[ev |-> "end", name |-> e.tag, attrs |-> EmptyDict]>>

RECURSIVE FileEvents(_)
\* the handler calls below the root, for the children of the root
FileEvents(es) == IF es = <<>> THEN <<>> ELSE ElementEvents(es[1]) \o FileEvents(Tail(es))

\* the next handler call of the read under way
NextEvent == FileEvents(root)[Len(events) + 1]

\* whether the read under way has handler calls left, the next of kind ev
Pending(ev) ==
    /\ ppc = "parsing"
    /\ Len(events) < Len(FileEvents(root))
    /\ NextEvent.ev = ev

InitTrip ==
    /\ NodeInputs
    /\ gdf_nodes = <<>>
    /\ gdf_edges = <<>>
    /\ root = <<>>
    /\ spc = "start"
    /\ sexc = ""
    /\ WayIdle
    /\ ParseIdle

ReadStartRoot ==
    /\ spc = "written"
    /\ StartRoot(WrittenFile.attrib)
    /\ UNCHANGED notParseVars

ReadStartElement ==
    /\ Pending("start")
    /\ OnStart(NextEvent.name, NextEvent.attrs)
    /\ UNCHANGED notParseVars

ReadEmptyElement ==
    /\ Pending("leaf")
    /\ OnLeaf(NextEvent.name, NextEvent.attrs)
    /\ UNCHANGED notParseVars

ReadEndElement ==
    /\ Pending("end")
    /\ OnEnd
    /\ UNCHANGED notParseVars

ReadEndRoot ==
    /\ Len(events) = Len(FileEvents(root))
    /\ EndRoot
    /\ UNCHANGED notParseVars

NextTrip ==
    \/ NormaliseTables
    \/ AppendNodes
    \/ AppendEdges
    \/ WriteFile
    \/ ReadStartRoot
    \/ ReadStartElement
    \/ ReadEmptyElement
    \/ ReadEndElement
    \/ ReadEndRoot

SpecTrip == InitTrip /\ [][NextTrip]_vars

----------------------------------------------------------------------------
(* Claims about the way reconstructor *)

\* the directed edges of a way group, as a set
EdgeSet(rows) == {<<rows[i].u, rows[i].v>> : i \in DOMAIN rows}

EndpointSet(rows) == {e[1] : e \in EdgeSet(rows)} \cup {e[2] : e \in EdgeSet(rows)}

RECURSIVE Walk(_, _, _)
\* the nodes met from n by following at most k edges, each the only one leaving
Walk(E, n, k) ==
    LET out == {e \in E : e[1] = n}
    IN  IF k = 0 \/ Cardinality(out) # 1 THEN <<n>>
        ELSE <<n>> \o Walk(E, (CHOOSE e \in out : TRUE)[2], k - 1)

ChainSources(rows) == {n \in EndpointSet(rows) : \A e \in EdgeSet(rows) : e[2] # n}

\* the natural node order n0, n1, ..., nk of a chain
ChainOrder(rows) == Walk(EdgeSet(rows), CHOOSE n \in ChainSources(rows) : TRUE, Len(rows))

\* the rows form one non-branching directed chain over pairwise distinct nodes
IsChain(rows) ==
    LET E == EdgeSet(rows)
    IN  /\ Cardinality(E) = Len(rows)
        /\ Cardinality(EndpointSet(rows)) = Len(rows) + 1
        /\ \A e \in E : e[1] # e[2]
        /\ \A e, f \in E : (e[1] = f[1] \/ e[2] = f[2]) => e = f
        /\ Cardinality(ChainSources(rows)) = 1
        /\ Len(ChainOrder(rows)) = Len(rows) + 1

\* the emitted refs read back as integers
EmittedNodes == [i \in 1..Len(xml_nd) |-> IntOf(xml_nd[i])]

\* C1: for every way group that is a single non-branching directed chain
\* n0 -> n1 -> ... -> nk over distinct nodes, in whatever order its rows
\* appear, the refs emitted for the way are exactly n0, n1, ..., nk.
C1_ChainNaturalOrder ==
    (wpc # "call" /\ IsChain(all_edges_df))
        => (wpc = "done" /\ EmittedNodes = ChainOrder(all_edges_df))

\* a chain of three edges whose rows are not in chain order was reconstructed
C1_Witness ==
    /\ wpc = "done"
    /\ IsChain(all_edges_df)
    /\ Len(all_edges_df) = 3
    /\ all_edges_df[1].u # ChainOrder(all_edges_df)[1]
    /\ all_edges_df[2].u = ChainOrder(all_edges_df)[1]

\* C2: the reconstructor never raises for a way group of two or more edges,
\* whatever its shape (disconnected, cyclic, self-loop, a cycle that does not
\* pass through the first row).
C2_NeverRaises == Len(all_edges_df) >= 2 => wpc # "raised"

\* C3 as stated: the docstring's disconnected group yields 1, 2, 3 and the
\* log reports 3 of 5 nodes.
C3_DocstringWayAsStated ==
    (wpc # "call" /\ all_edges_df = DocstringWay)
        => (wpc = "done" /\ EmittedNodes = <<1, 2, 3>> /\ wlog = << <<3, 5>> >>)

\* C3 amended: the docstring's disconnected group yields the nodes of its
\* largest weakly connected component, 10, 11, 12, 13, and the log reports
\* 4 of 7 nodes.
C3_DocstringWayLargest ==
    (wpc # "call" /\ all_edges_df = DocstringWay)
        => (wpc = "done" /\ EmittedNodes = <<10, 11, 12, 13>> /\ wlog = << <<4, 7>> >>)

C3_Witness == wpc = "done" /\ all_edges_df = DocstringWay /\ Len(xml_nd) = 4

----------------------------------------------------------------------------
(* Claims about the streaming element builder *)

\* C4: once the close event of a node, way or relation has appended the
\* element to the document's element sequence, no later event of any kind
\* changes that element: its tags, nodes and members stay as they were.
C4_AppendedElementNeverChanges ==
    [][\A i \in 1..Len(elements) : Document'[i] = Document[i]]_vars

\* a tag, nd or member event that arrived while no node, way or relation
\* was open
StrayChild(e) ==
    e.ev = "leaf" /\ e.name \in {"tag", "nd", "member"} /\ e.parent \notin ElementNames

\* C5: a tag, nd or member open event that occurs while no node, way or
\* relation is open makes the read fail, and no document is returned; it is
\* never silently accepted.  (Stated for any error; the claim asks for a
\* parse error.)
C5_StrayChildFailsRead ==
    (\E i \in DOMAIN events : StrayChild(events[i])) => ppc = "raised"

\* every node, way and relation is opened directly below the root, and every
\* tag, nd and member event lies inside an open element of the right kind
WellFormedStream(log) ==
    \A i \in DOMAIN log :
        /\ log[i].ev = "start" => log[i].parent = "osm"
        /\ (log[i].ev = "leaf" /\ log[i].name = "tag") => log[i].parent \in ElementNames
        /\ (log[i].ev = "leaf" /\ log[i].name = "nd") => log[i].parent = "way"
        /\ (log[i].ev = "leaf" /\ log[i].name = "member") => log[i].parent = "relation"

\* the positions of the close events, in order
Closes(log) == SelectSeq([i \in 1..Len(log) |-> i], LAMBDA i : log[i].ev = "end")

\* the open event a close event at position i answers
StartOf(log, i) == CHOOSE j \in 1..i : log[j].ev = "start" /\ \A x \in (j + 1)..i : log[x].ev # "start"

\* the events of one name nested between positions j and i
Nested(log, j, i, name) ==
    SelectSeq(SubSeq(log, j + 1, i - 1), LAMBDA e : e.ev = "leaf" /\ e.name = name)

\* the last value written per key
LastWritten(ts) ==
    [k \in {ts[x].attrs.k : x \in DOMAIN ts} |->
        ts[CHOOSE x \in DOMAIN ts :
              ts[x].attrs.k = k /\ \A y \in DOMAIN ts : ts[y].attrs.k = k => y <= x].attrs.v]

RefsOf(ns) == [x \in 1..Len(ns) |-> IntOf(ns[x].attrs.ref)]

MembersOf(ms) ==
    [x \in 1..Len(ms) |->
        [type |-> ms[x].attrs.type, ref |-> IntOf(ms[x].attrs.ref), role |-> ms[x].attrs.role]]

\* the record the element closed at position i must be
Reference(log, i) ==
    LET j == StartOf(log, i)
        base == [type |-> log[j].name, id |-> IntOf(log[j].attrs.id),
                 tags |-> LastWritten(Nested(log, j, i, "tag"))]
    IN  IF log[j].name = "way"
        THEN base @@ [nodes |-> RefsOf(Nested(log, j, i, "nd"))]
        ELSE IF log[j].name = "relation"
        THEN base @@ [members |-> MembersOf(Nested(log, j, i, "member"))]
        ELSE base

ReferenceFold(log) == [x \in 1..Len(Closes(log)) |-> Reference(log, Closes(log)[x])]

\* what the claim reads of a record of the document
Read(e) ==
    LET base == [type |-> e.type, id |-> e.attrs.id.int, tags |-> e.tags]
    IN  IF e.type = "way" THEN base @@ [nodes |-> e.nodes]
        ELSE IF e.type = "relation" THEN base @@ [members |-> e.members]
        ELSE base

\* C6: for every well-formed event stream the element sequence holds one
\* record per closed node, way or relation, in the order of the close
\* events, and each record is the fold of its own nested events: tags maps
\* each key to the last value written, a way's nodes are its nd refs as
\* integers in event order, a relation's members are its member records in
\* event order with ref an integer.
C6_WellFormedFold ==
    (ppc \in {"parsing", "done"} /\ WellFormedStream(events))
        => [i \in 1..Len(elements) |-> Read(Document[i])] = ReferenceFold(events)

\* a returned document of two elements of different kinds, the first tagged
C6_Witness ==
    /\ ppc = "done"
    /\ WellFormedStream(events)
    /\ Len(elements) = 2
    /\ Document[1].type # Document[2].type
    /\ DOMAIN Document[1].tags # {}

\* C14: the read of a file whose root generator holds the signature emits
\* the warning, the read of any other file emits none, and the warning
\* changes nothing else: whatever the generator, the read starts from the
\* same handler state apart from the generator field of the header, no later
\* step touches the header or the warnings, and a read that warned returns
\* the document the fold of its events gives
C14_GuardAdvisory ==
    [][/\ (ppc = "idle" /\ ppc' # "idle") =>
              /\ warnings' = IF "generator" \in DOMAIN header' /\ header'.generator = GenOSMnx
                             THEN <<GeneratedByOSMnx>> ELSE <<>>
              /\ ppc' = "parsing" /\ exc' = ""
              /\ heap' = <<>> /\ element' = 0 /\ elements' = <<>> /\ events' = <<>>
              /\ DOMAIN header' \subseteq {"version", "generator"}
              /\ header'.version = V06
       /\ ppc # "idle" => (warnings' = warnings /\ header' = header)
       /\ (ppc' = "done" /\ warnings' # <<>> /\ WellFormedStream(events')) =>
              [i \in 1..Len(elements') |-> Read(Document'[i])] = ReferenceFold(events')]_vars

\* a read that warned and returned a document of one element or more
C14_Witness ==
    /\ ppc = "done"
    /\ warnings = <<GeneratedByOSMnx>>
    /\ header.generator = GenOSMnx
    /\ Len(elements) >= 1
    /\ WellFormedStream(events)

----------------------------------------------------------------------------
(* Claims on the writer *)

\* the way elements of the tree, in document order
Ways == SelectSeq(root, LAMBDA e : e.tag = "way")

\* the ways whose id attribute is k
WaysOf(k) == SelectSeq(Ways, LAMBDA w : w.attrib["id"] = StrInt(k))

\* the values of the tag children of w whose key is t, in document order
TagValues(w, t) ==
    LET ts == SelectSeq(w.children, LAMBDA c : c.tag = "tag" /\ c.attrib.k = t)
    IN  [i \in 1..Len(ts) |-> ts[i].attrib.v]

\* the keys of the input's way groups
InputKeys == {data.edges.rows[i]["uniqueid"].int : i \in DOMAIN data.edges.rows}

\* the edges of the input whose uniqueid is k, in table order
InputGroup(k) == SelectSeq(data.edges.rows, LAMBDA r : r["uniqueid"] = IntCell(k))

\* the values the edges of a group carry for t, in table order
Carried(rows, t) ==
    IF t \notin data.edges.cols THEN <<>>
    ELSE SelectSeq(Column(rows, t), LAMBDA c : c # NaN)

\* the number a numeric cell holds
NumberOf(c) == Normalise(Decimal(c)[1], Decimal(c)[2])

\* the aggregation of numbers: their sum or their greatest
Expected(cells, agg) ==
    LET ns == [i \in 1..Len(cells) |-> NumberOf(cells[i])[1]]
    IN  <<IF agg = "sum" THEN SumSeq(ns) ELSE MaxOf(Range(ns)), 0>>

\* the aggregations declared for t, in the order of edge_tag_aggs
DeclaredFor(t) ==
    IF "none" \in DOMAIN args.edge_tag_aggs THEN <<>>
    ELSE LET ds == SelectSeq(args.edge_tag_aggs.list, LAMBDA a : a[1] = t)
         IN  [i \in 1..Len(ds) |-> ds[i][2]]

\* whether the text v of a tag is the value of the cell c
SameValue(v, c) == IF "str" \in DOMAIN c THEN v = c.str ELSE FloatOf(v) = NumberOf(c)

\* a merged write of a table grouped by uniqueid
MergedWrite == spc = "written" /\ args.merge_edges /\ "uniqueid" \in data.edges.cols

\* C7: on a merged way, a requested tag with a declared aggregation, carried
\* by some edge of the way group, has as value the aggregation over the
\* values of the edges of the group and the first edge's own value is not
\* emitted beside it; a requested tag with no declared aggregation has the
\* value of the first edge of the group (no tag when that edge has none)
C7_MergedWayTags ==
    MergedWrite =>
        \A k \in InputKeys :
            /\ Len(WaysOf(k)) = 1
            /\ \A t \in Range(args.edge_tags) :
                LET vs == TagValues(WaysOf(k)[1], t)
                    cells == Carried(InputGroup(k), t)
                    aggs == DeclaredFor(t)
                    first == InputGroup(k)[1]
                IN  IF aggs # <<>>
                    THEN cells # <<>> =>
                            /\ Len(vs) = Len(aggs)
                            /\ \A i \in DOMAIN aggs : FloatOf(vs[i]) = Expected(cells, aggs[i])
                    ELSE IF t \notin DOMAIN first \/ first[t] = NaN THEN vs = <<>>
                    ELSE Len(vs) = 1 /\ SameValue(vs[1], first[t])

\* the lengths 10, 15, 25 of one way were summed to 50
C7_Witness ==
    /\ ExampleInput
    /\ spc = "written"
    /\ Len(Ways) = 1
    /\ TagValues(Ways[1], "length") = << <<"5", "0">> >>
    /\ TagValues(Ways[1], "name") = <<Str_a>>

\* C8: when an aggregation is declared for a tag and no edge of a way group
\* carries a value for it, the merged way gets no tag with that key and the
\* write does not raise
C8_AbsentTagNoOp ==
    (args.merge_edges /\ "uniqueid" \in data.edges.cols
        /\ "list" \in DOMAIN args.edge_tag_aggs) =>
        /\ spc # "raised"
        /\ spc = "written" =>
              \A k \in InputKeys, t \in AggregatedTags(args.edge_tag_aggs) :
                  Carried(InputGroup(k), t) = <<>> => TagValues(WaysOf(k)[1], t) = <<>>

\* the wire value the directionality of a cell is to have
OnewayExpected(c, default) ==
    IF c = NaN THEN (IF default THEN <<"y", "e", "s">> ELSE <<"n", "o">>)
    ELSE IF "bool" \in DOMAIN c THEN (IF c.bool THEN <<"y", "e", "s">> ELSE <<"n", "o">>)
    ELSE c.str

\* C9: when the oneway column exists, a missing value becomes the wire
\* value of the caller's default, True becomes "yes", False becomes "no" and
\* every string value other than "True" and "False" themselves is unchanged
C9_OnewayNormalisation ==
    (spc \notin {"idle", "start"} /\ "oneway" \in data.edges.cols) =>
        \A i \in DOMAIN data.edges.rows :
            LET c == data.edges.rows[i]["oneway"]
            IN  c \notin {StrCell(StrTrue), StrCell(StrFalse)} =>
                    gdf_edges.rows[i]["oneway"] = StrCell(OnewayExpected(c, args.oneway))

\* whether the edges i and j are in the same way group
SameGroup(i, j) == gdf_edges.rows[i]["id"] = gdf_edges.rows[j]["id"]

\* C10 as stated: the way groups follow the column "id" of the input (edges
\* with equal id are in the same group and are one way when merged); with no
\* "id" column every edge is its own group under a sequential identifier
C10_GroupsFollowId ==
    spc \notin {"idle", "start"} =>
        IF "id" \in data.edges.cols
        THEN /\ \A i, j \in DOMAIN data.edges.rows :
                    data.edges.rows[i]["id"] = data.edges.rows[j]["id"] => SameGroup(i, j)
             /\ (spc = "written" /\ args.merge_edges) =>
                    Len(Ways) = Cardinality({data.edges.rows[i]["id"] : i \in DOMAIN data.edges.rows})
        ELSE \A i \in DOMAIN data.edges.rows : gdf_edges.rows[i]["id"] = IntCell(i - 1)

\* C10: the way groups follow the column "uniqueid" of the input, whose
\* column "id" is discarded (edges with equal uniqueid are in the same group
\* and are one way when merged); with no "uniqueid" column every edge is its
\* own group under a sequential identifier, and so its own way
C10_GroupsFollowUniqueid ==
    spc \notin {"idle", "start"} =>
        IF "uniqueid" \in data.edges.cols
        THEN /\ \A i \in DOMAIN data.edges.rows :
                    gdf_edges.rows[i]["id"] = data.edges.rows[i]["uniqueid"]
             /\ (spc = "written" /\ args.merge_edges) => Len(Ways) = Cardinality(InputKeys)
        ELSE /\ \A i \in DOMAIN data.edges.rows : gdf_edges.rows[i]["id"] = IntCell(i - 1)
             /\ spc = "written" => Len(Ways) = Len(data.edges.rows)

\* two edges with distinct id and equal uniqueid were merged into one way
C10_Witness ==
    /\ spc = "written"
    /\ args.merge_edges
    /\ Len(data.edges.rows) = 2
    /\ data.edges.cols = {"id", "uniqueid"}
    /\ data.edges.rows[1]["id"] # data.edges.rows[2]["id"]
    /\ data.edges.rows[1]["uniqueid"] = data.edges.rows[2]["uniqueid"]
    /\ Len(Ways) = 1

\* the node elements of the tree, in document order
Nodes == SelectSeq(root, LAMBDA e : e.tag = "node")

\* the names among sel that the row has a value for
Carries(row, sel) == {k \in Range(sel) : k \in DOMAIN row /\ row[k] # NaN}

\* the keys of the tag children of an element
TagKeys(e) == {c.attrib.k : c \in {x \in Range(e.children) : x.tag = "tag"}}

\* C11: the node emission completes without error and emits one node
\* element per node row, which carries the selected attributes and the
\* selected tags the row has a value for and omits the others
C11_NodeEmissionOmits ==
    [][spc = "normalised" =>
          /\ spc' = "nodes"
          /\ Len(Nodes') = Len(gdf_nodes.rows)
          /\ \A i \in DOMAIN gdf_nodes.rows :
                /\ DOMAIN Nodes'[i].attrib = Carries(gdf_nodes.rows[i], args.node_attrs)
                /\ TagKeys(Nodes'[i]) = Carries(gdf_nodes.rows[i], args.node_tags)]_vars

\* the nodes the nd children of a way refer to, in document order
NdRefs(w) ==
    LET ns == SelectSeq(w.children, LAMBDA c : c.tag = "nd")
    IN  [i \in 1..Len(ns) |-> IntOf(ns[i].attrib.ref)]

\* the way identifiers of the normalised edge table
WayIds == {gdf_edges.rows[i]["id"].int : i \in DOMAIN gdf_edges.rows}

\* C12: a write without merging emits one way per edge row, each with two
\* node references, u then v; a merged write emits one way per distinct way
\* identifier, and no two ways of the output share an identifier
C12_WaysByMergeMode ==
    spc = "written" =>
        IF ~args.merge_edges
        THEN /\ Len(Ways) = Len(data.edges.rows)
             /\ \A i \in DOMAIN data.edges.rows :
                    NdRefs(Ways[i]) = <<data.edges.rows[i]["u"].int, data.edges.rows[i]["v"].int>>
        ELSE /\ Len(Ways) = Cardinality(WayIds)
             /\ {IntOf(Ways[i].attrib["id"]) : i \in DOMAIN Ways} = WayIds

\* three edges of one uniqueid were written unmerged as three ways
C12_Witness ==
    /\ spc = "written"
    /\ ~args.merge_edges
    /\ Len(data.edges.rows) = 3
    /\ "uniqueid" \in data.edges.cols
    /\ Cardinality(InputKeys) = 1
    /\ Len(Ways) = 3
    /\ NdRefs(Ways[2]) = <<2, 3>>

\* the ids of the node table of the input
InputNodeIds == {data.nodes.rows[i]["osmid"].int : i \in DOMAIN data.nodes.rows}

\* whether some edge of the input refers to a node the node table has not
Dangling ==
    \E i \in DOMAIN data.edges.rows :
        data.edges.rows[i]["u"].int \notin InputNodeIds
            \/ data.edges.rows[i]["v"].int \notin InputNodeIds

\* C13: when an edge refers to a node that is not in the node table, the
\* write does not produce a document
C13_UnknownNodeRejected == Dangling => spc # "written"

----------------------------------------------------------------------------
(* Claims on the round trip *)

\* the elements of the document read whose type is type
OfType(type) == SelectSeq(Document, LAMBDA e : e.type = type)

\* C15: the document read back from the file written for a node table and
\* the single edge (1, 2) has as many node elements as the table has nodes
\* and one way element, whose nodes are [1, 2]; for nodes 1 and 2 that is
\* two node elements
C15_MinimalRoundTrip ==
    ppc = "done" =>
        /\ Len(OfType("node")) = Len(data.nodes.rows)
        /\ Len(OfType("way")) = 1
        /\ OfType("way")[1].nodes = <<1, 2>>
        /\ Len(Document) = Len(data.nodes.rows) + 1

\* the graph of nodes 1 and 2 and the edge (1, 2) was written and read back
C15_Witness ==
    /\ ppc = "done"
    /\ data = MinimalGraph
    /\ Len(OfType("node")) = 2
    /\ Len(OfType("way")) = 1
    /\ OfType("way")[1].nodes = <<1, 2>>
    /\ [i \in 1..2 |-> OfType("node")[i].attrs["lon"]] = <<[float |-> <<0, 0>>], [float |-> <<1, 0>>]>>

----------------------------------------------------------------------------
(* Claims on the list _get_unique_nodes_ordered_from_way returns *)

\* the weakly connected component of n, as a set of nodes
WeakComponent(rows, n) == Reach(WayEdges(rows), {n})

\* the weakly connected components of greatest size
LargestComponents(rows) ==
    LET cs == {WeakComponent(rows, n) : n \in EndpointSet(rows)}
    IN  {c \in cs : \A d \in cs : Cardinality(d) <= Cardinality(c)}

\* the position of n in the list
Position(list, n) == CHOOSE i \in DOMAIN list : list[i] = n

\* whether the list holds no node twice
NoRepeat(list) == \A i, j \in DOMAIN list : list[i] = list[j] => i = j

\* C16: a list the function returns holds every node of a largest weakly
\* connected component of the way group once, holds no other node, and
\* holds a before b for every edge (a, b) of that component
C16_ListRespectsEdges ==
    (wpc = "done" /\ Len(all_edges_df) >= 2
        /\ ~GetUniqueNodesOrderedFromWay(all_edges_df).raised) =>
        /\ NoRepeat(EmittedNodes)
        /\ Range(EmittedNodes) \in LargestComponents(all_edges_df)
        /\ \A e \in EdgeSet(all_edges_df) :
              e[1] \in Range(EmittedNodes) =>
                  Position(EmittedNodes, e[1]) < Position(EmittedNodes, e[2])

\* rows out of order with a shortcut: (2, 3), (1, 3), (1, 2) give 1, 2, 3
C16_Witness ==
    /\ wpc = "done"
    /\ all_edges_df = <<Row(2, 3), Row(1, 3), Row(1, 2)>>
    /\ EmittedNodes = <<1, 2, 3>>

\* the rows form one simple directed cycle: as many edges as nodes, one
\* edge into and one edge out of each node, and all nodes on one round
IsSimpleCycle(rows) ==
    LET E == EdgeSet(rows)
        round == Walk(E, rows[1].u, Len(rows))
    IN  /\ Len(rows) >= 2
        /\ Cardinality(E) = Len(rows)
        /\ Cardinality(EndpointSet(rows)) = Len(rows)
        /\ \A e, f \in E : (e[1] = f[1] \/ e[2] = f[2]) => e = f
        /\ Len(round) = Len(rows) + 1
        /\ Range(round) = EndpointSet(rows)

\* C17: for a way group that is one simple directed cycle, in any row
\* order, the call does not raise and the references emitted are the round
\* of the cycle from the first row's u back to it: k + 1 references for a
\* cycle of k nodes
C17_ClosedLoop ==
    (wpc # "call" /\ IsSimpleCycle(all_edges_df)) =>
        /\ wpc = "done"
        /\ EmittedNodes = Walk(EdgeSet(all_edges_df), all_edges_df[1].u, Len(all_edges_df))
        /\ EmittedNodes[1] = all_edges_df[1].u
        /\ EmittedNodes[Len(EmittedNodes)] = all_edges_df[1].u

\* the cycle 1 -> 2 -> 3 -> 1 given from its second edge on was closed at 2
C17_Witness ==
    /\ wpc = "done"
    /\ all_edges_df = <<Row(2, 3), Row(1, 2), Row(3, 1)>>
    /\ EmittedNodes = <<2, 3, 1, 2>>

============================================================================
